---------------------------- MODULE Spec2Model ----------------------------
(***************************************************************************)
(* Model of obsidian-ipynb-viewer:                                         *)
(*   - the JupyterAbstractPath value type (utils/jupyter-path),            *)
(*   - EmbeddedJupyterView.onLoadFile / convertIpynbToHTML (ipynb-view),   *)
(*   - IpynbViewer.createJupyterNotebook (main).                           *)
(* A path string is a sequence of one-character strings.                   *)
(***************************************************************************)
EXTENDS Integers, Sequences, FiniteSets, TLC

VARIABLES
    vault,      \* the host vault: [adapter, basePath]
    val,        \* the JupyterAbstractPath the program holds (or NoValue)
    recv,       \* the receiver of the last append as it was before the call
    res,        \* what the last operation returned (NoValue if it threw)
    op,         \* the last operation on paths and its arguments
    err,        \* the error the last operation threw (NoError if none)
    chain,      \* two appends and the direct append they are compared with
    cache,      \* the files of <vault>/.obsidian/cache/, by cache file path
    view,       \* each EmbeddedJupyterView: where its onLoadFile call stands
    container,  \* each view's containerEl.children[1]: the content divs added
    hostErrors, \* the views whose onLoadFile promise was rejected to the host
    files,      \* the vault's files, by vault-relative path
    notices,    \* the Notice shown by each createJupyterNotebook call
    create      \* each createJupyterNotebook call: where it stands

pathVars == <<val, recv, res, op, err>>

viewVars == <<cache, view, container, hostErrors>>

createVars == <<files, notices, create>>

vars == <<vault, val, recv, res, op, err, chain, cache, view, container,
          hostErrors, files, notices, create>>

----------------------------------------------------------------------------
(* Bounds of the model. *)

\* longest string given to the constructor, fromAbsolute, fromRelative, append
MaxLen == 2

\* append is explored while the concatenated strings stay within this length
MaxPathLen == 6

\* characters the input strings are drawn from
Chars == {"/", "a"}

StrsUpTo(n) == UNION {[1..k -> Chars] : k \in 0..n}

Strs == StrsUpTo(MaxLen)

\* base paths the host's FileSystemAdapter may report
Roots == {<<"/", "a">>, <<"/", "a", "/">>}

----------------------------------------------------------------------------
(* JavaScript string primitives used by the code. *)

Min(a, b) == IF a < b THEN a ELSE b

Max(a, b) == IF a > b THEN a ELSE b

\* String.prototype.startsWith
StartsWith(s, p) == Len(p) <= Len(s) /\ SubSeq(s, 1, Len(p)) = p

\* String.prototype.endsWith
EndsWith(s, p) == Len(p) <= Len(s) /\ SubSeq(s, Len(s) - Len(p) + 1, Len(s)) = p

\* String.prototype.substring(start, end): both indices are clamped to
\* [0, length] and swapped when start > end; characters start .. end-1 (0-based)
Substring(s, start, end) ==
    LET a == Max(0, Min(start, Len(s)))
        b == Max(0, Min(end, Len(s)))
    IN  SubSeq(s, Min(a, b) + 1, Max(a, b))

\* String.prototype.substring(start)
SubstringFrom(s, start) == Substring(s, start, Len(s))

----------------------------------------------------------------------------
(* obsidian's normalizePath: runs of '/' and '\' become one '/', leading   *)
(* and trailing '/' are trimmed, the empty result becomes "/".  (Its       *)
(* replacement of non-breaking spaces and its NFC normalisation do not     *)
(* change the characters modelled here.)                                   *)

IsSep(c) == c \in {"/", "\\"}

RECURSIVE DropLeadingSeps(_)
DropLeadingSeps(s) ==
    IF s # <<>> /\ IsSep(s[1]) THEN DropLeadingSeps(Tail(s)) ELSE s

RECURSIVE CollapseSeps(_)
CollapseSeps(s) ==
    IF s = <<>> THEN <<>>
    ELSE IF IsSep(s[1]) THEN <<"/">> \o CollapseSeps(DropLeadingSeps(s))
    ELSE <<s[1]>> \o CollapseSeps(Tail(s))

TrimSeps(s) ==
    LET h == IF s # <<>> /\ s[1] = "/" THEN Tail(s) ELSE s
    IN  IF h # <<>> /\ h[Len(h)] = "/" THEN SubSeq(h, 1, Len(h) - 1) ELSE h

normalizePath(path) ==
    LET t == TrimSeps(CollapseSeps(path))
    IN  IF t = <<>> THEN <<"/">> ELSE t

----------------------------------------------------------------------------
(* utils/jupyter-path *)

\* the null of `relative: string|null`
Null == <<"null">>

NoValue == [none |-> TRUE]

NoError == "none"

\* Error("Invalid environment : ... needs a FileSystemAdapter instance ...")
ErrEnvironment == "invalid-environment"

\* Error("Invalid argument in JupyterAbstractPath constructor ...") and
\* Error("Cannot append a path to a file, ...")
ErrInvalidOperation == "invalid-operation"

Threw(e) == [err |-> e, value |-> NoValue]

Returned(v) == [err |-> NoError, value |-> v]

getVaultRootPath(v) ==
    IF v.adapter = "FileSystemAdapter" THEN Returned(v.basePath)
    ELSE Threw(ErrEnvironment)

\* inVault(path, vault, root) with root given, as fromAbsolute calls it
inVault(path, root) == StartsWith(path, root)

\* the constructor without its check of `relative === null`
JupyterAbstractPath_NullAccepted(absolute, relative, isFolder, isInVault) ==
    LET n   == normalizePath(absolute)
        abs == IF isFolder /\ ~EndsWith(n, <<"/">>) THEN n \o <<"/">>
               ELSE IF ~isFolder /\ EndsWith(n, <<"/">>)
                    THEN Substring(n, 0, Len(n) - 1)
               ELSE n
        rel == IF relative = Null THEN Null
               ELSE IF isFolder /\ ~EndsWith(relative, <<"/">>) THEN relative \o <<"/">>
               ELSE IF ~isFolder /\ EndsWith(relative, <<"/">>)
                    THEN Substring(relative, 0, Len(abs) - 1)
               ELSE relative
    IN  Returned([absolutePath |-> abs, relativePath |-> IF isInVault THEN rel ELSE Null,
                  isDirectory |-> isFolder, isInVault |-> isInVault])

\* the constructor without `absolute = normalizePath(absolute)`
JupyterAbstractPath_NotNormalized(absolute, relative, isFolder, isInVault) ==
    LET n   == absolute
        abs == IF isFolder /\ ~EndsWith(n, <<"/">>) THEN n \o <<"/">>
               ELSE IF ~isFolder /\ EndsWith(n, <<"/">>)
                    THEN Substring(n, 0, Len(n) - 1)
               ELSE n
        rel == IF isFolder /\ ~EndsWith(relative, <<"/">>) THEN relative \o <<"/">>
               ELSE IF ~isFolder /\ EndsWith(relative, <<"/">>)
                    THEN Substring(relative, 0, Len(abs) - 1)
               ELSE relative
    IN  IF ~isInVault
        THEN Returned([absolutePath |-> abs, relativePath |-> Null,
                       isDirectory |-> isFolder, isInVault |-> isInVault])
        ELSE IF relative = Null THEN Threw(ErrInvalidOperation)
        ELSE Returned([absolutePath |-> abs, relativePath |-> rel,
                       isDirectory |-> isFolder, isInVault |-> isInVault])

JupyterAbstractPath(absolute, relative, isFolder, isInVault) ==
    LET n   == normalizePath(absolute)
        abs == IF isFolder /\ ~EndsWith(n, <<"/">>) THEN n \o <<"/">>
               ELSE IF ~isFolder /\ EndsWith(n, <<"/">>)
                    THEN Substring(n, 0, Len(n) - 1)
               ELSE n
        rel == IF isFolder /\ ~EndsWith(relative, <<"/">>) THEN relative \o <<"/">>
               ELSE IF ~isFolder /\ EndsWith(relative, <<"/">>)
                    THEN Substring(relative, 0, Len(abs) - 1)
               ELSE relative
    IN  IF ~isInVault
        THEN Returned([absolutePath |-> abs, relativePath |-> Null,
                       isDirectory |-> isFolder, isInVault |-> isInVault])
        ELSE IF relative = Null THEN Threw(ErrInvalidOperation)
        ELSE Returned([absolutePath |-> abs, relativePath |-> rel,
                       isDirectory |-> isFolder, isInVault |-> isInVault])

getAbsolutePath(p) == p.absolutePath

getRelativePath(p) == IF ~p.isInVault THEN Null ELSE p.relativePath

isFolder(p) == p.isDirectory

isInVaultOf(p) == p.isInVault

StripLeadingSlash(s) == IF StartsWith(s, <<"/">>) THEN SubstringFrom(s, 1) ELSE s

\* append without its check that the receiver is a folder
append_NoFolderCheck(this, relativePath, folder) ==
    LET r == StripLeadingSlash(relativePath)
        n == JupyterAbstractPath(
                 this.absolutePath \o r,
                 IF this.relativePath = Null THEN Null ELSE this.relativePath \o r,
                 folder,
                 isInVaultOf(this))
    IN  [err |-> n.err, value |-> n.value, this |-> this]

\* append without the stripping of the segment's leading '/'
append_KeepsLeadingSlash(this, relativePath, folder) ==
    IF ~isFolder(this) THEN [err |-> ErrInvalidOperation, value |-> NoValue, this |-> this]
    ELSE LET r == relativePath
             n == JupyterAbstractPath(
                      this.absolutePath \o r,
                      IF this.relativePath = Null THEN Null ELSE this.relativePath \o r,
                      folder,
                      isInVaultOf(this))
         IN  [err |-> n.err, value |-> n.value, this |-> this]

\* this.append(relativePath, folder): what it throws or returns, and the
\* receiver after the call (append assigns to no field of `this`)
append(this, relativePath, folder) ==
    IF ~isFolder(this) THEN [err |-> ErrInvalidOperation, value |-> NoValue, this |-> this]
    ELSE LET r == StripLeadingSlash(relativePath)
             n == JupyterAbstractPath(
                      this.absolutePath \o r,
                      IF this.relativePath = Null THEN Null ELSE this.relativePath \o r,
                      folder,
                      isInVaultOf(this))
         IN  [err |-> n.err, value |-> n.value, this |-> this]

fromAbsolute(absolute, folder, v) ==
    LET root == getVaultRootPath(v)
    IN  IF root.err # NoError THEN Threw(root.err)
        ELSE LET vaultRoot == root.value
                 isIn      == inVault(absolute, vaultRoot)
                 relative  == IF isIn THEN SubstringFrom(absolute, Len(vaultRoot))
                              ELSE Null
             IN  JupyterAbstractPath(absolute, relative, folder, isIn)

\* "Ensure the vault's root ends with '/'"
WithTrailingSlash(root) == IF ~EndsWith(root, <<"/">>) THEN root \o <<"/">> ELSE root

fromRelative(relative, folder, v) ==
    LET root == getVaultRootPath(v)
    IN  IF root.err # NoError THEN Threw(root.err)
        ELSE LET vaultRoot == WithTrailingSlash(root.value)
                 r         == StripLeadingSlash(relative)
             IN  JupyterAbstractPath(vaultRoot \o r, r, folder, TRUE)

----------------------------------------------------------------------------
(* The path operations as a state machine: a value is constructed, and    *)
(* values are derived from it by append.                                   *)

NoOp == [name |-> "none"]

NoChain == [pc |-> "none"]

----------------------------------------------------------------------------
(* utils/ipynb-view: the views and the converter's cache folder. *)

\* views open at the same time
Views == {"v1", "v2"}

\* onLoadFile calls explored per view
MaxLoads == 2

\* the TFile values the host hands to onLoadFile: two notebooks of the same
\* basename in different folders, a third notebook, and a file that is none
TFiles ==
    { [path |-> "A/n.ipynb", basename |-> "n", extension |-> "ipynb"],
      [path |-> "B/n.ipynb", basename |-> "n", extension |-> "ipynb"],
      [path |-> "A/m.ipynb", basename |-> "m", extension |-> "ipynb"],
      [path |-> "A/t.md",    basename |-> "t", extension |-> "md"] }

NoFile == [path |-> "none"]

\* basePath + '/' + file.path
filePath(file) == <<vault.basePath, "/", file.path>>

\* join(cacheFolder, `${file.basename}.html`), which is the file that
\* adapter.read("/.obsidian/cache/" + file.basename + ".html") reads
cacheFilePath(file) == <<"/.obsidian/cache/", file.basename, ".html">>

CacheFilePaths == {cacheFilePath(f) : f \in TFiles}

Absent == [absent |-> TRUE]

\* what `jupyter nbconvert --to html <ipynbPath>` writes for a notebook
Html(ipynbPath) == [htmlOf |-> ipynbPath]

NoHtml == [htmlOf |-> "none"]

IdleView ==
    [pc |-> "idle", openedFile |-> NoFile, htmlContent |-> NoHtml,
     loads |-> 0, before |-> 0, outcome |-> "none", resignalled |-> FALSE]

ViewsIdle ==
    /\ cache = [c \in CacheFilePaths |-> Absent]
    /\ view = [v \in Views |-> IdleView]
    /\ container = [v \in Views |-> <<>>]
    /\ hostErrors = {}

----------------------------------------------------------------------------
(* main: createJupyterNotebook and the vault's files. *)

\* createJupyterNotebook calls that may overlap
Creates == {"c1", "c2"}

NoFiles == [x \in {} |-> Absent]

\* files the user keeps in the vault before any notebook is created
MaxUserFiles == 1

\* the content of a file that is not the empty notebook
UserContent == "user"

\* the empty notebook written by createJupyterNotebook
Skeleton == "{cells: [], metadata: {...}, nbformat: 4, nbformat_minor: 5}"

\* getDefaultNotebookFilename() at two different seconds
NotebookFilenames == {<<"n", "1">>, <<"n", "2">>}

NothingCreated ==
    /\ files = NoFiles
    /\ notices = [c \in Creates |-> {}]
    /\ create = [c \in Creates |-> [pc |-> "idle"]]

Vaults ==
    {[adapter |-> a, basePath |-> b] : a \in {"FileSystemAdapter", "other"}, b \in Roots}

Init ==
    /\ vault \in Vaults
    /\ val = NoValue
    /\ recv = NoValue
    /\ res = NoValue
    /\ op = NoOp
    /\ err = NoError
    /\ chain = NoChain
    /\ ViewsIdle
    /\ NothingCreated

\* A construction does not read the value held before it, so the states it
\* leads to are the same from every state: it is explored from the states
\* that hold no value.
Finish(r) ==
    /\ val = NoValue
    /\ err' = r.err
    /\ res' = r.value
    /\ val' = r.value

New(absolute, relative, folder, isIn) ==
    /\ Finish(JupyterAbstractPath(absolute, relative, folder, isIn))
    /\ op' = [name |-> "new", absolute |-> absolute, relative |-> relative,
              isFolder |-> folder, isInVault |-> isIn]
    /\ recv' = NoValue
    /\ UNCHANGED <<vault, chain, viewVars, createVars>>

FromAbsolute(absolute, folder) ==
    /\ Finish(fromAbsolute(absolute, folder, vault))
    /\ op' = [name |-> "fromAbsolute", absolute |-> absolute, isFolder |-> folder]
    /\ recv' = NoValue
    /\ UNCHANGED <<vault, chain, viewVars, createVars>>

FromRelative(relative, folder) ==
    /\ Finish(fromRelative(relative, folder, vault))
    /\ op' = [name |-> "fromRelative", relative |-> relative, isFolder |-> folder]
    /\ recv' = NoValue
    /\ UNCHANGED <<vault, chain, viewVars, createVars>>

\* val.append(relativePath, folder): the program goes on with the new value,
\* or, when append throws, with the receiver
AppendChild(relativePath, folder) ==
    /\ val # NoValue
    /\ Len(val.absolutePath) + Len(relativePath) <= MaxPathLen
    /\ val.relativePath # Null =>
           Len(val.relativePath) + Len(relativePath) <= MaxPathLen
    /\ LET r == append(val, relativePath, folder)
       IN  /\ err' = r.err
           /\ res' = r.value
           /\ val' = IF r.err = NoError THEN r.value ELSE r.this
    /\ op' = [name |-> "append", relativePath |-> relativePath, isFolder |-> folder]
    /\ recv' = val
    /\ UNCHANGED <<vault, chain, viewVars, createVars>>

Next ==
    \/ \E a \in Strs, r \in Strs \cup {Null}, f \in BOOLEAN, i \in BOOLEAN :
           New(a, r, f, i)
    \/ \E a \in Strs, f \in BOOLEAN : FromAbsolute(a, f)
    \/ \E r \in Strs, f \in BOOLEAN : FromRelative(r, f)
    \/ \E c \in Strs, f \in BOOLEAN : AppendChild(c, f)

Spec == Init /\ [][Next]_vars

----------------------------------------------------------------------------
(* Properties of the path value type. *)

Slash == <<"/">>

EndsWithOneSlash(s) == EndsWith(s, Slash) /\ ~EndsWith(s, Slash \o Slash)

AppendDone == op.name = "append" /\ err = NoError

\* C1: a directory-flagged value's absolute path and relative path (when not
\* null) each end with exactly one '/'; a file-flagged value's absolute path
\* and relative path do not end with '/'.
C1_TrailingSeparator ==
    val # NoValue =>
        IF isFolder(val)
        THEN /\ EndsWithOneSlash(getAbsolutePath(val))
             /\ getRelativePath(val) # Null => EndsWithOneSlash(getRelativePath(val))
        ELSE /\ ~EndsWith(getAbsolutePath(val), Slash)
             /\ getRelativePath(val) # Null => ~EndsWith(getRelativePath(val), Slash)

\* C2: getRelativePath() is non-null exactly when inVault() is true, for every
\* value constructed or derived by append; the constructor called with
\* isInVault = true and relative = null throws and yields no value.
C2_RelativeIffInVault ==
    /\ val # NoValue => (getRelativePath(val) # Null <=> isInVaultOf(val))
    /\ res # NoValue => (getRelativePath(res) # Null <=> isInVaultOf(res))
    /\ (op.name = "new" /\ op.isInVault /\ op.relative = Null) =>
           (err = ErrInvalidOperation /\ res = NoValue)

C2_Witness ==
    /\ AppendDone
    /\ isInVaultOf(recv)
    /\ getRelativePath(val) # Null
    /\ op.relativePath # <<>>

\* C3: fromAbsolute(a, f, root) is in-vault exactly when a starts with the
\* vault root in its normalized form (the root ending with one separator, as
\* fromRelative normalizes it).
C3_InVaultIffUnderRoot ==
    (op.name = "fromAbsolute" /\ err = NoError) =>
        (isInVaultOf(val) <=> StartsWith(op.absolute, WithTrailingSlash(vault.basePath)))

\* r in normalized form: separators collapsed, a trailing '/' exactly when the
\* value is a directory
NormalizedRelative(r, folder) ==
    LET c == CollapseSeps(r)
        t == IF EndsWith(c, Slash) THEN SubSeq(c, 1, Len(c) - 1) ELSE c
    IN  IF folder THEN t \o Slash ELSE t

\* C4: for r not starting with '/', fromRelative(r, f, root) is in-vault and
\* its relative path is r in normalized form.
C4_FromRelativeRoundTrip ==
    (op.name = "fromRelative" /\ err = NoError /\ ~StartsWith(op.relative, Slash)) =>
        /\ isInVaultOf(val)
        /\ getRelativePath(val) = NormalizedRelative(op.relative, op.isFolder)

\* the strings of the example of C5
ExampleVault ==
    [adapter |-> "FileSystemAdapter", basePath |-> <<"/", "v", "a", "u", "l", "t", "/">>]

ExampleNotes == <<"N", "o", "t", "e", "s", "/">>

ExampleLog == <<"2", "0", "2", "4", "-", "L", "o", "g", ".", "i", "p", "y", "n", "b">>

ExampleResult == append(fromRelative(ExampleNotes, TRUE, ExampleVault).value, ExampleLog, FALSE).value

TrailingSlashIff(s, folder) ==
    IF folder THEN (IF EndsWith(s, Slash) THEN s ELSE s \o Slash)
    ELSE IF EndsWith(s, Slash) THEN SubSeq(s, 1, Len(s) - 1) ELSE s

C7_AppendToFileFails ==
    (op.name = "append" /\ ~isFolder(recv)) =>
        /\ err = ErrInvalidOperation
        /\ res = NoValue
        /\ val = recv

C7_Witness ==
    /\ op.name = "append"
    /\ ~isFolder(recv)
    /\ op.isFolder
    /\ op.relativePath # <<>>

----------------------------------------------------------------------------
(* Two appends against one: d.append(p, true).append(q, isDir2) and        *)
(* d.append(p + '/' + q, isDir2), for a directory d built by the           *)
(* constructor, fromAbsolute or fromRelative.                              *)

ChainBases ==
    {r.value : r \in {x \in
        {JupyterAbstractPath(a, rl, TRUE, i) : a \in Strs, rl \in Strs \cup {Null}, i \in BOOLEAN}
        \cup {fromAbsolute(a, TRUE, vault) : a \in Strs}
        \cup {fromRelative(rl, TRUE, vault) : rl \in Strs} : x.err = NoError}}

InitChain ==
    /\ vault \in {v \in Vaults : v.adapter = "FileSystemAdapter"}
    /\ val = NoValue
    /\ recv = NoValue
    /\ res = NoValue
    /\ op = NoOp
    /\ err = NoError
    /\ chain = NoChain
    /\ ViewsIdle
    /\ NothingCreated

ChainConstruct ==
    /\ chain.pc = "none"
    /\ \E d \in ChainBases : chain' = [pc |-> "base", d |-> d]
    /\ UNCHANGED <<vault, pathVars, viewVars, createVars>>

ChainAppendFirst(p) ==
    /\ chain.pc = "base"
    /\ chain' = [pc |-> "first", d |-> chain.d, p |-> p,
                 mid |-> append(chain.d, p, TRUE).value]
    /\ UNCHANGED <<vault, pathVars, viewVars, createVars>>

ChainAppendSecond(q, isDir2) ==
    /\ chain.pc = "first"
    /\ chain' = [pc |-> "second", d |-> chain.d, p |-> chain.p, mid |-> chain.mid,
                 q |-> q, isDir2 |-> isDir2,
                 twice |-> append(chain.mid, q, isDir2).value]
    /\ UNCHANGED <<vault, pathVars, viewVars, createVars>>

ChainAppendDirect ==
    /\ chain.pc = "second"
    /\ chain' = [pc |-> "done", d |-> chain.d, p |-> chain.p, mid |-> chain.mid,
                 q |-> chain.q, isDir2 |-> chain.isDir2, twice |-> chain.twice,
                 once |-> append(chain.d, chain.p \o <<"/">> \o chain.q,
                                 chain.isDir2).value]
    /\ UNCHANGED <<vault, pathVars, viewVars, createVars>>

NextChain ==
    \/ ChainConstruct
    \/ \E p \in Strs : ChainAppendFirst(p)
    \/ \E q \in Strs, f \in BOOLEAN : ChainAppendSecond(q, f)
    \/ ChainAppendDirect

SpecChain == InitChain /\ [][NextChain]_vars

\* C6: the absolute path of d.append(p, true).append(q, isDir2) equals the
\* absolute path of d.append(p + '/' + q, isDir2).
C6_AppendTwiceIsAppendOnce ==
    chain.pc = "done" =>
        getAbsolutePath(chain.twice) = getAbsolutePath(chain.once)

C6_Witness ==
    /\ chain.pc = "done"
    /\ EndsWith(chain.p, Slash)
    /\ StartsWith(chain.q, Slash)
    /\ Len(chain.p) > 1
    /\ Len(chain.q) > 1
    /\ getAbsolutePath(chain.twice) # getAbsolutePath(chain.d)

----------------------------------------------------------------------------
(* EmbeddedJupyterView.onLoadFile and convertIpynbToHTML.  The host calls  *)
(* onLoadFile of any view at any time; a call runs to its next await,      *)
(* where the calls of the other views may run.                             *)

NotView == UNCHANGED <<vault, pathVars, chain, createVars>>

\* onLoadFile of a file that is no notebook: openedFile is set, nothing else
OnLoadFileOther(v, file) ==
    /\ view[v].pc = "idle"
    /\ view[v].loads < MaxLoads
    /\ file.extension # "ipynb"
    /\ view' = [view EXCEPT ![v] =
                   [@ EXCEPT !.openedFile = file, !.loads = @ + 1,
                             !.before = Len(container[v]), !.outcome = "skipped",
                             !.htmlContent = NoHtml, !.resignalled = FALSE]]
    /\ UNCHANGED <<cache, container, hostErrors>>
    /\ NotView

\* onLoadFile of a notebook, up to the end of execSync: nbconvert has written
\* the cache file
OnLoadFileConverted(v, file) ==
    /\ view[v].pc = "idle"
    /\ view[v].loads < MaxLoads
    /\ file.extension = "ipynb"
    /\ cache' = [cache EXCEPT ![cacheFilePath(file)] = Html(filePath(file))]
    /\ view' = [view EXCEPT ![v] =
                   [@ EXCEPT !.pc = "reading", !.openedFile = file, !.loads = @ + 1,
                             !.before = Len(container[v]), !.outcome = "none",
                             !.htmlContent = NoHtml, !.resignalled = FALSE]]
    /\ UNCHANGED <<container, hostErrors>>
    /\ NotView

\* the catch of convertIpynbToHTML: console.error, then `throw error`
convertCatch(r) == [r EXCEPT !.pc = "rejected", !.resignalled = TRUE]

\* onLoadFile of a notebook whose converter process fails: execSync throws
OnLoadFileConvertFails(v, file) ==
    /\ view[v].pc = "idle"
    /\ view[v].loads < MaxLoads
    /\ file.extension = "ipynb"
    /\ view' = [view EXCEPT ![v] =
                   convertCatch([@ EXCEPT !.openedFile = file, !.loads = @ + 1,
                                          !.before = Len(container[v]),
                                          !.outcome = "none", !.htmlContent = NoHtml,
                                          !.resignalled = FALSE])]
    /\ UNCHANGED <<cache, container, hostErrors>>
    /\ NotView

\* adapter.read(read_html_path) resolves with what the cache file holds then
ReadResolves(v) ==
    /\ view[v].pc = "reading"
    /\ cache[cacheFilePath(view[v].openedFile)] # Absent
    /\ view' = [view EXCEPT ![v] =
                   [@ EXCEPT !.pc = "resolved",
                             !.htmlContent = cache[cacheFilePath(view[v].openedFile)]]]
    /\ UNCHANGED <<cache, container, hostErrors>>
    /\ NotView

\* adapter.read rejects: the cached HTML cannot be read
ReadRejects(v) ==
    /\ view[v].pc = "reading"
    /\ view' = [view EXCEPT ![v] = convertCatch(@)]
    /\ UNCHANGED <<cache, container, hostErrors>>
    /\ NotView

\* the rest of the try block: createDiv() and content.innerHTML
InjectContent(v) ==
    /\ view[v].pc = "resolved"
    /\ container' = [container EXCEPT ![v] = Append(@, view[v].htmlContent)]
    /\ view' = [view EXCEPT ![v] = [@ EXCEPT !.pc = "idle", !.outcome = "shown"]]
    /\ UNCHANGED <<cache, hostErrors>>
    /\ NotView

\* a catch of onLoadFile that throws the error on to the host
OnLoadFileCatch_Rethrows(v) ==
    /\ view[v].pc = "rejected"
    /\ view' = [view EXCEPT ![v] = [@ EXCEPT !.pc = "idle", !.outcome = "failed"]]
    /\ hostErrors' = hostErrors \cup {v}
    /\ UNCHANGED <<cache, container>>
    /\ NotView

\* the catch of onLoadFile: console.error, and the call completes
OnLoadFileCatch(v) ==
    /\ view[v].pc = "rejected"
    /\ view' = [view EXCEPT ![v] = [@ EXCEPT !.pc = "idle", !.outcome = "failed"]]
    /\ UNCHANGED <<cache, container, hostErrors>>
    /\ NotView

InitView ==
    /\ vault \in {x \in Vaults : x.adapter = "FileSystemAdapter"}
    /\ val = NoValue
    /\ recv = NoValue
    /\ res = NoValue
    /\ op = NoOp
    /\ err = NoError
    /\ chain = NoChain
    /\ ViewsIdle
    /\ NothingCreated

NextView ==
    \/ \E v \in Views, f \in TFiles : OnLoadFileOther(v, f)
    \/ \E v \in Views, f \in TFiles : OnLoadFileConverted(v, f)
    \/ \E v \in Views, f \in TFiles : OnLoadFileConvertFails(v, f)
    \/ \E v \in Views : ReadResolves(v)
    \/ \E v \in Views : ReadRejects(v)
    \/ \E v \in Views : InjectContent(v)
    \/ \E v \in Views : OnLoadFileCatch(v)

SpecView == InitView /\ [][NextView]_vars

\* C8: when the conversion fails during onLoadFile of a notebook (the
\* converter fails or the cached HTML cannot be read), convertIpynbToHTML
\* re-signals the error, onLoadFile catches it, no content element is added
\* to the view container, and no error reaches the host.
C8_FailureShowsNothing ==
    \A v \in Views :
        /\ view[v].pc = "rejected" =>
               (view[v].resignalled /\ Len(container[v]) = view[v].before)
        /\ view[v].outcome = "failed" =>
               /\ view[v].pc = "idle"
               /\ view[v].resignalled
               /\ Len(container[v]) = view[v].before
               /\ v \notin hostErrors

C8_Witness ==
    \E v \in Views, w \in Views :
        /\ view[v].outcome = "failed"
        /\ view[v].openedFile.extension = "ipynb"
        /\ cache[cacheFilePath(view[v].openedFile)] # Absent
        /\ view[w].outcome = "failed"
        /\ cache[cacheFilePath(view[w].openedFile)] = Absent

\* C10: under every interleaving of the views' onLoadFile calls, the HTML a
\* view injects for notebook f is the converter's output for f, also when
\* two notebooks share a basename and so a cache file.
C10_InjectsOwnNotebook ==
    \A v \in Views :
        /\ view[v].pc = "resolved" =>
               view[v].htmlContent = Html(filePath(view[v].openedFile))
        /\ view[v].outcome = "shown" =>
               container[v][Len(container[v])] = Html(filePath(view[v].openedFile))

----------------------------------------------------------------------------
(* IpynbViewer.createJupyterNotebook.  A call runs to its next await       *)
(* (adapter.exists, adapter.write), where another call may run.            *)

\* the folders createJupyterNotebook is called with: fromRelative of the
\* vault root ("/") and of a folder of the vault, and folders given by an
\* absolute path, inside and outside of the vault
CreateFolders ==
    {r.value : r \in {x \in
        {fromRelative(s, TRUE, vault) : s \in {<<"/">>, <<"a">>}}
        \cup {fromAbsolute(s, TRUE, vault) : s \in {<<"/">>, <<"/", "a", "/", "a">>}}
        : x.err = NoError}}

CreateTargets ==
    {getRelativePath(append(d, n, FALSE).value) :
        d \in {x \in CreateFolders : isInVaultOf(x)}, n \in NotebookFilenames}

NotCreate == UNCHANGED <<vault, pathVars, chain, viewVars>>

\* adapter.exists(path)
exists(path) == path \in DOMAIN files

\* adapter.write(path, data)
write(path, data) ==
    [x \in DOMAIN files \cup {path} |-> IF x = path THEN data ELSE files[x]]

\* `if (!folder.inVault()) throw`
CreateOutsideVault(c) ==
    /\ create[c].pc = "idle"
    /\ \E folder \in CreateFolders :
        /\ ~isInVaultOf(folder)
        /\ create' = [create EXCEPT ![c] =
                         [pc |-> "failed", folder |-> folder, probed |-> FALSE,
                          wrote |-> FALSE]]
    /\ UNCHANGED <<files, notices>>
    /\ NotCreate

\* folder.append(this.getDefaultNotebookFilename(), false), and
\* adapter.exists(file.getRelativePath()) is called
CreateProbes(c, filename) ==
    /\ create[c].pc = "idle"
    /\ \E folder \in CreateFolders :
        /\ isInVaultOf(folder)
        /\ LET file == append(folder, filename, FALSE)
           IN  create' = [create EXCEPT ![c] =
                             IF file.err # NoError
                             THEN [pc |-> "failed", folder |-> folder,
                                   probed |-> FALSE, wrote |-> FALSE]
                             ELSE [pc |-> "probing", folder |-> folder,
                                   file |-> file.value, probed |-> FALSE,
                                   wrote |-> FALSE]]
    /\ UNCHANGED <<files, notices>>
    /\ NotCreate

\* an existence check that aborts the creation when the file exists
ExistsResolves_Aborts(c) ==
    /\ create[c].pc = "probing"
    /\ LET path == getRelativePath(create[c].file)
       IN  /\ notices' = [notices EXCEPT ![c] = IF exists(path) THEN {path} ELSE {}]
           /\ create' = [create EXCEPT ![c] =
                            [pc |-> IF exists(path) THEN "done" ELSE "writing",
                             folder |-> @.folder, file |-> @.file,
                             probed |-> TRUE, existed |-> exists(path),
                             wrote |-> FALSE, replaced |-> "nothing"]]
    /\ UNCHANGED files
    /\ NotCreate

\* adapter.exists resolves: the Notice if the file exists, and in both cases
\* adapter.write is called
ExistsResolves(c) ==
    /\ create[c].pc = "probing"
    /\ LET path == getRelativePath(create[c].file)
       IN  /\ notices' = [notices EXCEPT ![c] = IF exists(path) THEN {path} ELSE {}]
           /\ create' = [create EXCEPT ![c] =
                            [pc |-> "writing", folder |-> @.folder, file |-> @.file,
                             probed |-> TRUE, existed |-> exists(path),
                             wrote |-> FALSE]]
    /\ UNCHANGED files
    /\ NotCreate

\* adapter.write resolves: the file holds the empty notebook; the file is
\* opened in a new tab
WriteResolves(c) ==
    /\ create[c].pc = "writing"
    /\ LET path == getRelativePath(create[c].file)
       IN  /\ files' = write(path, Skeleton)
           /\ create' = [create EXCEPT ![c] =
                            [pc |-> "done", folder |-> @.folder, file |-> @.file,
                             probed |-> TRUE, existed |-> @.existed, wrote |-> TRUE,
                             replaced |-> IF exists(path) THEN files[path] ELSE "nothing"]]
    /\ UNCHANGED notices
    /\ NotCreate

\* adapter.exists or adapter.write rejects: the call fails there
AdapterRejects(c) ==
    /\ create[c].pc \in {"probing", "writing"}
    /\ create' = [create EXCEPT ![c] =
                     [pc |-> "failed", folder |-> @.folder, probed |-> @.probed,
                      wrote |-> FALSE]]
    /\ UNCHANGED <<files, notices>>
    /\ NotCreate

InitCreate ==
    /\ vault \in {x \in Vaults : x.adapter = "FileSystemAdapter"}
    /\ val = NoValue
    /\ recv = NoValue
    /\ res = NoValue
    /\ op = NoOp
    /\ err = NoError
    /\ chain = NoChain
    /\ ViewsIdle
    /\ notices = [c \in Creates |-> {}]
    /\ create = [c \in Creates |-> [pc |-> "idle"]]
    /\ \E S \in SUBSET CreateTargets :
           /\ Cardinality(S) <= MaxUserFiles
           /\ files = [x \in S |-> UserContent]

NextCreate ==
    \/ \E c \in Creates : CreateOutsideVault(c)
    \/ \E c \in Creates, n \in NotebookFilenames : CreateProbes(c, n)
    \/ \E c \in Creates : ExistsResolves(c)
    \/ \E c \in Creates : WriteResolves(c)
    \/ \E c \in Creates : AdapterRejects(c)

SpecCreate == InitCreate /\ [][NextCreate]_vars

=============================================================================
